---- MODULE Spec2Model ----
(***************************************************************************)
(* Cryptix Frost Hash (src/src/main.rs): the keyless 512-bit hash built    *)
(* from an input-dependent S-box, a 24-round bit-mix / substitute /        *)
(* diffuse permutation and a pad-and-absorb driver.                        *)
(*                                                                         *)
(* A u64 is modelled as the tuple of its 8 bytes, least significant byte   *)
(* first (index 1 is bits 0..7), so that every wrapping operation keeps    *)
(* its 64-bit width.  A byte sequence (&[u8], Vec<u8>) is a sequence of    *)
(* numbers in 0..255; Rust's 0-based offset k is index k+1.                *)
(***************************************************************************)
EXTENDS Integers, Sequences, FiniteSets, TLC

(***************************************************************************)
(* u64 arithmetic                                                          *)
(***************************************************************************)
Pow2 == <<1, 2, 4, 8, 16, 32, 64, 128, 256>>

RECURSIVE XorBits(_, _, _)
XorBits(a, b, n) ==
    IF n = 0 THEN 0
    ELSE ((a + b) % 2) + 2 * XorBits(a \div 2, b \div 2, n - 1)

\* a ^ b on u8, tabulated once
XorTab == [a \in 0..255 |-> [b \in 0..255 |-> XorBits(a, b, 8)]]

Zero == <<0, 0, 0, 0, 0, 0, 0, 0>>

One == <<1, 0, 0, 0, 0, 0, 0, 0>>

\* the u64 written as four 16-bit groups, most significant first
W16(h3, h2, h1, h0) ==
    <<h0 % 256, h0 \div 256, h1 % 256, h1 \div 256,
      h2 % 256, h2 \div 256, h3 % 256, h3 \div 256>>

\* b as u64
from_u8(b) == <<b, 0, 0, 0, 0, 0, 0, 0>>

\* (b as u64) << bits, for bits a multiple of 8 below 64
u8_shl(b, bits) ==
    LET p == (bits \div 8) + 1
    IN  <<IF p = 1 THEN b ELSE 0, IF p = 2 THEN b ELSE 0,
          IF p = 3 THEN b ELSE 0, IF p = 4 THEN b ELSE 0,
          IF p = 5 THEN b ELSE 0, IF p = 6 THEN b ELSE 0,
          IF p = 7 THEN b ELSE 0, IF p = 8 THEN b ELSE 0>>

\* a ^ b on u64
xor(a, b) ==
    <<XorTab[a[1]][b[1]], XorTab[a[2]][b[2]], XorTab[a[3]][b[3]],
      XorTab[a[4]][b[4]], XorTab[a[5]][b[5]], XorTab[a[6]][b[6]],
      XorTab[a[7]][b[7]], XorTab[a[8]][b[8]]>>

\* a | b on u64 words whose set bits are disjoint (as at every use in hash
\* and apply_byte_substitution, where the bytes or-ed in occupy a fresh lane)
or_disjoint(a, b) ==
    <<a[1] + b[1], a[2] + b[2], a[3] + b[3], a[4] + b[4],
      a[5] + b[5], a[6] + b[6], a[7] + b[7], a[8] + b[8]>>

\* a + b + c mod 2^64, c the carry in
add_carry(a, b, c) ==
    LET s1 == a[1] + b[1] + c
        s2 == a[2] + b[2] + (s1 \div 256)
        s3 == a[3] + b[3] + (s2 \div 256)
        s4 == a[4] + b[4] + (s3 \div 256)
        s5 == a[5] + b[5] + (s4 \div 256)
        s6 == a[6] + b[6] + (s5 \div 256)
        s7 == a[7] + b[7] + (s6 \div 256)
        s8 == a[8] + b[8] + (s7 \div 256)
    IN  <<s1 % 256, s2 % 256, s3 % 256, s4 % 256,
          s5 % 256, s6 % 256, s7 % 256, s8 % 256>>

wrapping_add(a, b) == add_carry(a, b, 0)

\* a - b mod 2^64 = a + ~b + 1
wrapping_sub(a, b) ==
    add_carry(a, <<255 - b[1], 255 - b[2], 255 - b[3], 255 - b[4],
                   255 - b[5], 255 - b[6], 255 - b[7], 255 - b[8]>>, 1)

\* a * b mod 2^64, by columns of byte products
wrapping_mul(a, b) ==
    LET c1 == a[1]*b[1]
        c2 == a[1]*b[2] + a[2]*b[1] + (c1 \div 256)
        c3 == a[1]*b[3] + a[2]*b[2] + a[3]*b[1] + (c2 \div 256)
        c4 == a[1]*b[4] + a[2]*b[3] + a[3]*b[2] + a[4]*b[1] + (c3 \div 256)
        c5 == a[1]*b[5] + a[2]*b[4] + a[3]*b[3] + a[4]*b[2] + a[5]*b[1]
              + (c4 \div 256)
        c6 == a[1]*b[6] + a[2]*b[5] + a[3]*b[4] + a[4]*b[3] + a[5]*b[2]
              + a[6]*b[1] + (c5 \div 256)
        c7 == a[1]*b[7] + a[2]*b[6] + a[3]*b[5] + a[4]*b[4] + a[5]*b[3]
              + a[6]*b[2] + a[7]*b[1] + (c6 \div 256)
        c8 == a[1]*b[8] + a[2]*b[7] + a[3]*b[6] + a[4]*b[5] + a[5]*b[4]
              + a[6]*b[3] + a[7]*b[2] + a[8]*b[1] + (c7 \div 256)
    IN  <<c1 % 256, c2 % 256, c3 % 256, c4 % 256,
          c5 % 256, c6 % 256, c7 % 256, c8 % 256>>

\* byte k (1..8) of x rotated left by 8q + r bits
RotByte(x, q, r, k) ==
    ((x[((k + 7 - q) % 8) + 1] * Pow2[r + 1]) % 256)
    + (x[((k + 6 - q) % 8) + 1] \div Pow2[9 - r])

rotate_left(x, n) ==
    LET q == (n % 64) \div 8
        r == n % 8
    IN  <<RotByte(x, q, r, 1), RotByte(x, q, r, 2), RotByte(x, q, r, 3),
          RotByte(x, q, r, 4), RotByte(x, q, r, 5), RotByte(x, q, r, 6),
          RotByte(x, q, r, 7), RotByte(x, q, r, 8)>>

rotate_right(x, n) == rotate_left(x, (64 - (n % 64)) % 64)

\* x % m for a u64 x and 1 <= m <= 256 (most significant byte first)
rem_small(x, m) ==
    LET r8 == x[8] % m
        r7 == (r8 * 256 + x[7]) % m
        r6 == (r7 * 256 + x[6]) % m
        r5 == (r6 * 256 + x[5]) % m
        r4 == (r5 * 256 + x[4]) % m
        r3 == (r4 * 256 + x[3]) % m
        r2 == (r3 * 256 + x[2]) % m
    IN  (r2 * 256 + x[1]) % m

(***************************************************************************)
(* Configuration                                                           *)
(***************************************************************************)
NUM_ROUNDS == 24

ROUND_CONSTANTS ==
    << W16(\h243F, \h6A88, \h85A3, \h08D3), W16(\h1319, \h8A2E, \h0370, \h7344),
       W16(\hA409, \h3822, \h299F, \h31D0), W16(\h082E, \hFA98, \hEC4E, \h6C89),
       W16(\h4528, \h21E6, \h38D0, \h1377), W16(\hBE54, \h66CF, \h34E9, \h0C6C),
       W16(\hC0AC, \h29B7, \hC97C, \h50DD), W16(\h3F84, \hD5B5, \hB547, \h0917),
       W16(\h9216, \hD5D9, \h8979, \hFB1B), W16(\hD131, \h0BA6, \h98DF, \hB5AC),
       W16(\h2FFD, \h72DB, \hD01A, \hDFB7), W16(\hB8E1, \hAFED, \h6A26, \h7E96),
       W16(\h9B05, \h688C, \h2B3E, \h6C1F), W16(\h1F83, \hD9AB, \hFB41, \hBD6B),
       W16(\h5BE0, \hCD19, \h137E, \h2179), W16(\hCBBB, \h9D5D, \hC105, \h9ED8),
       W16(\h629A, \h292A, \h367C, \hD507), W16(\h9159, \h015A, \h3070, \hDD17),
       W16(\h152F, \hECD8, \hF70E, \h5939), W16(\h6733, \h2667, \hFFC0, \h0B31),
       W16(\h8EB4, \h4A87, \h6858, \h1511), W16(\hDB0C, \h2E0D, \h64F9, \h8FA7),
       W16(\h47B5, \h481D, \hBEFA, \h4FA4), W16(\h0FC1, \h9DC6, \h8B8C, \hD5B5) >>

\* 6364136223846793005 = 0x5851F42D4C957F2D
LCG_MUL_1 == W16(\h5851, \hF42D, \h4C95, \h7F2D)

\* 1442695040888963407 = 0x14057B7EF767814F
LCG_MUL_2 == W16(\h1405, \h7B7E, \hF767, \h814F)

MIX_MUL_A == W16(\h94D0, \h49BB, \h1331, \h11EB)

MIX_MUL_B == W16(\hA24B, \hAED4, \h963E, \hE407)

MIX_MUL_B3 == W16(\hDEAD, \hBEEF, \hDEAD, \hBEEF)

MIX_MUL_B6 == W16(\hBADF, \h00D1, \hBADF, \h00D1)

GOLDEN == W16(\h9E37, \h79B9, \h7F4A, \h7C15)

(***************************************************************************)
(* generate_sbox                                                           *)
(***************************************************************************)
\* sbox[i] = i as u8 for i in 0..256; the table is the sequence of its 256
\* entries, entry i (0-based) at index i+1
sbox_identity == SubSeq([k \in 1..256 |-> (k - 1) % 256], 1, 256)

\* the offsets of input_bytes the seed mix reads
seed_mix_offsets(input_bytes) ==
    IF Len(input_bytes) > 7 THEN {2, 5, 7} ELSE 0..(Len(input_bytes) - 1)

RECURSIVE seed_mix_each(_, _, _)
\* the else branch: mixed_seed ^= (b as u64) << (8 * (i % 8)) for bytes i..
seed_mix_each(mixed_seed, input_bytes, i) ==
    IF i >= Len(input_bytes) THEN mixed_seed
    ELSE seed_mix_each(
             xor(mixed_seed, u8_shl(input_bytes[i + 1], 8 * (i % 8))),
             input_bytes, i + 1)

\* the seed mix reading offset 0 where the code reads offset 2
seed_mix_first(seed, input_bytes) ==
    IF Len(input_bytes) > 7
    THEN xor(xor(xor(seed, u8_shl(input_bytes[1], 16)),
                 u8_shl(input_bytes[6], 8)),
             from_u8(input_bytes[8]))
    ELSE seed_mix_each(seed, input_bytes, 0)

seed_mix(seed, input_bytes) ==
    IF Len(input_bytes) > 7
    THEN xor(xor(xor(seed, u8_shl(input_bytes[3], 16)),
                 u8_shl(input_bytes[6], 8)),
             from_u8(input_bytes[8]))
    ELSE seed_mix_each(seed, input_bytes, 0)

\* state = state.wrapping_mul(mult).wrapping_add(1)
lcg_next(state, mult) == wrapping_add(wrapping_mul(state, mult), One)

\* the partner drawn modulo i+2: one past the shuffled prefix
swap_partner_wide(state, i) == rem_small(state, i + 2)

\* j = (state % (i as u64 + 1)) as usize
swap_partner(state, i) == rem_small(state, i + 1)

\* sbox.swap(i, j)
swap(sbox, i, j) == [sbox EXCEPT ![i + 1] = sbox[j + 1], ![j + 1] = sbox[i + 1]]

\* one iteration of a shuffle loop on r = [sbox, state, ok]; ok turns FALSE
\* when the swap index falls outside the table (sbox.swap panics)
shuffle_step(r, i, mult) ==
    LET s == lcg_next(r.state, mult)
        j == swap_partner(s, i)
    IN  IF ~r.ok THEN r
        ELSE IF j > 255 THEN [sbox |-> r.sbox, state |-> s, ok |-> FALSE]
        ELSE [sbox |-> swap(r.sbox, i, j), state |-> s, ok |-> TRUE]

RECURSIVE shuffle_range(_, _, _, _)
\* the iterations i = hi, hi-1, .., lo of a shuffle loop, in that order
shuffle_range(r, hi, lo, mult) ==
    IF hi < lo THEN r
    ELSE IF hi = lo THEN shuffle_step(r, hi, mult)
    ELSE LET mid == (hi + lo) \div 2
             upper == shuffle_range(r, hi, mid + 1, mult)
         IN  IF upper.ok THEN shuffle_range(upper, mid, lo, mult) ELSE upper

\* for i in (1..256).rev()
shuffle(sbox, state, mult) ==
    shuffle_range([sbox |-> sbox, state |-> state, ok |-> TRUE], 255, 1, mult)

generate_sbox(seed, input_bytes) ==
    LET p1 == shuffle(sbox_identity, seed_mix(seed, input_bytes), LCG_MUL_1)
    IN  IF p1.ok THEN shuffle(p1.sbox, p1.state, LCG_MUL_2) ELSE p1

(***************************************************************************)
(* byte substitution, bit mixing, one round                                *)
(***************************************************************************)
byte_substitute(x, sbox) == sbox[x + 1]

\* byte i of x is (x >> (i * 8)) & 0xFF; the substituted bytes are or-ed
\* back into their own lanes
apply_byte_substitution(x, sbox) ==
    <<byte_substitute(x[1], sbox), byte_substitute(x[2], sbox),
      byte_substitute(x[3], sbox), byte_substitute(x[4], sbox),
      byte_substitute(x[5], sbox), byte_substitute(x[6], sbox),
      byte_substitute(x[7], sbox), byte_substitute(x[8], sbox)>>

\* whether bit_mix folds input bytes 3 and 6 in
bit_mix_folds(input_bytes) == Len(input_bytes) > 6

bit_mix(x0, rc, input_bytes) ==
    LET x1 == wrapping_add(x0, rc)
        x2 == xor(x1, rotate_left(x1, 7))
        x3 == wrapping_add(x2, rotate_left(x2, 17))
        x4 == xor(x3, wrapping_mul(x3, MIX_MUL_A))
        x5 == wrapping_sub(x4, rotate_right(x4, 19))
        x6 == xor(x5, rotate_left(rc, 11))
        x7 == xor(x6, rotate_left(wrapping_mul(x6, MIX_MUL_B), 23))
    IN  IF bit_mix_folds(input_bytes)
        THEN LET b3 == from_u8(input_bytes[4])
                 b6 == from_u8(input_bytes[7])
             IN  xor(x7, rotate_left(xor(wrapping_mul(b3, MIX_MUL_B3),
                                         wrapping_mul(b6, MIX_MUL_B6)), 13))
        ELSE x7

\* the constant of the following round
rc_index_next(round) == (round + 1) % Len(ROUND_CONSTANTS)

\* the index into ROUND_CONSTANTS (0-based)
rc_index(round) == round % Len(ROUND_CONSTANTS)

\* the first loop of permute_round; a state is the tuple of its 8 words,
\* word i (0-based) at index i+1
mix_all(state, round, input_bytes) ==
    LET rc == ROUND_CONSTANTS[rc_index(round) + 1]
    IN  <<bit_mix(state[1], rc, input_bytes), bit_mix(state[2], rc, input_bytes),
          bit_mix(state[3], rc, input_bytes), bit_mix(state[4], rc, input_bytes),
          bit_mix(state[5], rc, input_bytes), bit_mix(state[6], rc, input_bytes),
          bit_mix(state[7], rc, input_bytes), bit_mix(state[8], rc, input_bytes)>>

\* the second loop of permute_round
substitute_all(state, sbox) ==
    <<apply_byte_substitution(state[1], sbox),
      apply_byte_substitution(state[2], sbox),
      apply_byte_substitution(state[3], sbox),
      apply_byte_substitution(state[4], sbox),
      apply_byte_substitution(state[5], sbox),
      apply_byte_substitution(state[6], sbox),
      apply_byte_substitution(state[7], sbox),
      apply_byte_substitution(state[8], sbox)>>

\* one iteration of the third loop: word i is updated in place from the
\* current contents of the array
diffuse_word(state, round, i) ==
    LET left   == state[((i + 7) % 8) + 1]
        right  == state[((i + 1) % 8) + 1]
        center == state[((i + 4) % 8) + 1]
        extra  == state[((i + 3) % 8) + 1]
        s1 == xor(state[i + 1], rotate_left(left, (round + i * 2) % 64))
        s2 == xor(s1, rotate_right(right, (round + i * 3) % 64))
        s3 == xor(s2, rotate_left(center, 11))
        s4 == xor(s3, rotate_left(wrapping_mul(extra, GOLDEN),
                                  (round + i * 5) % 64))
    IN  [state EXCEPT ![i + 1] = s4]

RECURSIVE diffuse_from(_, _, _)
diffuse_from(state, round, i) ==
    IF i >= 8 THEN state
    ELSE LET next == diffuse_word(state, round, i)
         IN  IF Len(next) = 8 THEN diffuse_from(next, round, i + 1) ELSE next

\* every word computed from the array as it was before the loop
diffuse_snapshot(state, round) ==
    <<diffuse_word(state, round, 0)[1], diffuse_word(state, round, 1)[2],
      diffuse_word(state, round, 2)[3], diffuse_word(state, round, 3)[4],
      diffuse_word(state, round, 4)[5], diffuse_word(state, round, 5)[6],
      diffuse_word(state, round, 6)[7], diffuse_word(state, round, 7)[8]>>

\* the third loop of permute_round, for i in 0..8
diffuse(state, round) == diffuse_from(state, round, 0)

permute_round(state, round, sbox, input_bytes) ==
    diffuse(substitute_all(mix_all(state, round, input_bytes), sbox), round)

(***************************************************************************)
(* permute, pad_block, hash                                                *)
(***************************************************************************)
\* state.iter().fold(0u64, |acc, &v| acc ^ v)
fold_seed(state) ==
    xor(xor(xor(xor(xor(xor(xor(xor(Zero, state[1]), state[2]), state[3]),
        state[4]), state[5]), state[6]), state[7]), state[8])

RECURSIVE rounds_from(_, _, _, _)
rounds_from(state, round, sbox, input_bytes) ==
    IF round >= NUM_ROUNDS THEN state
    ELSE LET next == permute_round(state, round, sbox, input_bytes)
         IN  IF Len(next) = 8
             THEN rounds_from(next, round + 1, sbox, input_bytes)
             ELSE next

permute(state, input_bytes) ==
    LET g == generate_sbox(fold_seed(state), input_bytes)
    IN  rounds_from(state, 0, g.sbox, input_bytes)

RECURSIVE pad_zeros(_)
\* while padded.len() % 8 != 0 { padded.push(0x00) }
pad_zeros(padded) ==
    IF Len(padded) % 8 # 0 THEN pad_zeros(Append(padded, 0)) ELSE padded

\* padding that always adds a zero byte after the terminator
pad_block_extra(data) == pad_zeros(Append(Append(data, 128), 0))

\* padding that stops after the terminator
pad_block_bare(data) == Append(data, 128)

pad_block(data) == pad_zeros(Append(data, 128))

\* the number of chunks padded.chunks(8) yields
num_chunks(padded) == (Len(padded) + 7) \div 8

\* chunk i of padded.chunks(8): up to 8 bytes from offset 8i
chunk_at(padded, i) ==
    SubSeq(padded, 8 * i + 1,
           IF 8 * i + 8 < Len(padded) THEN 8 * i + 8 ELSE Len(padded))

RECURSIVE chunk_val_from(_, _, _)
\* val |= (b as u64) << (j * 8) for the bytes j.. of the chunk
chunk_val_from(val, chunk, j) ==
    IF j >= Len(chunk) THEN val
    ELSE chunk_val_from(or_disjoint(val, u8_shl(chunk[j + 1], j * 8)),
                        chunk, j + 1)

\* the chunk assembled most significant byte first
chunk_val_be(chunk) ==
    chunk_val_from(Zero, [k \in 1..Len(chunk) |-> chunk[Len(chunk) + 1 - k]], 0)

chunk_val(chunk) == chunk_val_from(Zero, chunk, 0)

\* the chunk index used as it is
state_index_raw(i) == i

\* the index of the state word chunk i is folded into
state_index(i) == i % 8

\* state[i % 8] ^= val
absorb_chunk(state, padded, i) ==
    [state EXCEPT ![state_index(i) + 1] =
        xor(state[state_index(i) + 1], chunk_val(chunk_at(padded, i)))]

RECURSIVE absorb_from(_, _, _)
absorb_from(state, padded, i) ==
    IF i >= num_chunks(padded) THEN state
    ELSE LET next == absorb_chunk(state, padded, i)
         IN  IF Len(next) = 8 THEN absorb_from(next, padded, i + 1) ELSE next

state_zero == <<Zero, Zero, Zero, Zero, Zero, Zero, Zero, Zero>>

RECURSIVE hash_from(_, _, _)
\* the body of hash's block loop, from block b (0-based) on
hash_from(state, inputs, b) ==
    IF b >= Len(inputs) THEN state
    ELSE LET padded == pad_block(inputs[b + 1])
             next == permute(absorb_from(state, padded, 0), padded)
         IN  IF Len(next) = 8 THEN hash_from(next, inputs, b + 1) ELSE next

hash(inputs) == hash_from(state_zero, inputs, 0)

(***************************************************************************)
(* Inputs of the model                                                     *)
(***************************************************************************)
\* the longest list of blocks one hash call is given
MaxBlocks == 2

\* the longest block pad_block is applied to on its own
MaxPadLen == 9

\* the longest byte sequence generate_sbox is applied to on its own
MaxSboxLen == 9

\* b"short", the second test input of main
BlockShort == <<115, 104, 111, 114, 116>>

\* an 80-byte block (10 full chunks, 11 chunks once padded): byte k is 3k+1
BlockLong == SubSeq([k \in 1..80 |-> (3 * (k - 1) + 1) % 256], 1, 80)

Blocks == {<<>>, BlockShort, BlockLong}

RECURSIVE ListsUpTo(_)
\* the lists of at most n blocks
ListsUpTo(n) ==
    IF n = 0 THEN {<<>>}
    ELSE LET shorter == ListsUpTo(n - 1)
         IN  shorter \cup {Append(l, b) : l \in shorter, b \in Blocks}

InputLists == ListsUpTo(MaxBlocks)

RECURSIVE BytesUpTo(_)
\* the byte sequences of at most n bytes over {0x00, 0x80}
BytesUpTo(n) ==
    IF n = 0 THEN {<<>>}
    ELSE LET shorter == BytesUpTo(n - 1)
         IN  shorter \cup {Append(d, b) : d \in shorter, b \in {0, 128}}

PadInputs == BytesUpTo(MaxPadLen)

AllOnes == <<255, 255, 255, 255, 255, 255, 255, 255>>

Seeds == {Zero, AllOnes, ROUND_CONSTANTS[1]}

\* the first n bytes of 0x61, 0x80, 0x00, 0xFF, 0x62, ...
SboxBytes(n) ==
    SubSeq([k \in 1..n |->
               (<<97, 128, 0, 255>>[((k - 1) % 4) + 1] + ((k - 1) \div 4)) % 256],
           1, n)

SboxInputs == {SboxBytes(n) : n \in 0..MaxSboxLen}

(***************************************************************************)
(* State                                                                   *)
(***************************************************************************)
VARIABLES
    pc,           \* where the current hash call stands
    inputs,       \* hash: the list of blocks of the current call
    blk,          \* hash: the number of blocks already processed
    padded,       \* hash: the padded copy of the current block
    chunk,        \* hash: the number of chunks already absorbed
    state,        \* hash: the 8 state words; the digest at the return
    input_bytes,  \* permute, generate_sbox, bit_mix: the bytes passed down
    seed,         \* permute: the seed handed to generate_sbox
    sbox,         \* generate_sbox / permute: the substitution table
    lcg,          \* generate_sbox: the generator state (mixed_seed, state)
    si,           \* generate_sbox: the index i of the next swap
    round,        \* permute: the round about to run
    recalled,     \* history: whether an earlier call of hash has returned
    prior,        \* history: the state words when the current block began
    pre_diffuse,  \* history: the state words before the latest third loop
    log,          \* history: the operations of the current call, in order
    steps,        \* history: the number of steps of the current call
    seed_branch,  \* history: the branch the latest seed mix took
    mix_folded,   \* history: whether the latest bit_mix folded bytes 3 and 6
    swapped,      \* history: <<i, j>> of the latest swap
    sbox_gen      \* history: the number of tables generated in this call

vars == <<pc, inputs, blk, padded, chunk, state, input_bytes, seed, sbox, lcg,
          si, round, recalled, prior, pre_diffuse, log, steps, seed_branch,
          mix_folded, swapped, sbox_gen>>

hash_locals == <<blk, padded, chunk, state>>

permute_locals == <<input_bytes, seed, sbox, lcg, si, round>>

history_but_steps == <<prior, pre_diffuse, log, seed_branch, mix_folded,
                       swapped, sbox_gen>>

history == <<history_but_steps, steps>>

\* the values of everything a call owns before the call assigns it
Fresh ==
    /\ blk = 0 /\ padded = <<>> /\ chunk = 0
    /\ input_bytes = <<>> /\ seed = Zero /\ sbox = <<>> /\ lcg = Zero
    /\ si = 0 /\ round = 0
    /\ prior = state_zero /\ pre_diffuse = state_zero /\ log = <<>>
    /\ steps = 0 /\ seed_branch = "none" /\ mix_folded = "none"
    /\ swapped = <<>> /\ sbox_gen = 0

Init ==
    /\ pc = "idle"
    /\ inputs = <<>>
    /\ state = state_zero
    /\ recalled = FALSE
    /\ Fresh

(***************************************************************************)
(* hash                                                                    *)
(***************************************************************************)
\* the state left as the previous call returned it
initial_state_stale(old) == old

\* the state started from the first eight round constants
initial_state_iv(old) == SubSeq(ROUND_CONSTANTS, 1, 8)

\* let mut state = [0u64; 8]; old is what the variable held before
initial_state(old) == state_zero

Panic ==
    /\ pc' = "panic"
    /\ UNCHANGED <<inputs, hash_locals, permute_locals, recalled, history>>

\* a call of hash(l): the locals are new and state is initialised
HashEnter(l) ==
    /\ pc \in {"idle", "done"}
    /\ recalled' = (pc = "done")
    /\ inputs' = l
    /\ state' = initial_state(state)
    /\ blk' = 0 /\ padded' = <<>> /\ chunk' = 0
    /\ input_bytes' = <<>> /\ seed' = Zero /\ sbox' = <<>> /\ lcg' = Zero
    /\ si' = 0 /\ round' = 0
    /\ prior' = state_zero /\ pre_diffuse' = state_zero /\ log' = <<>>
    /\ steps' = 0 /\ seed_branch' = "none" /\ mix_folded' = "none"
    /\ swapped' = <<>> /\ sbox_gen' = 0
    /\ pc' = "loop"

\* for &block in inputs: padded = pad_block(block)
PadBlock ==
    /\ pc = "loop"
    /\ blk < Len(inputs)
    /\ padded' = pad_block(inputs[blk + 1])
    /\ chunk' = 0
    /\ prior' = state
    /\ log' = Append(log, <<"pad", blk>>)
    /\ steps' = steps + 1
    /\ pc' = "absorb"
    /\ UNCHANGED <<inputs, blk, state, permute_locals, recalled, pre_diffuse,
                   seed_branch, mix_folded, swapped, sbox_gen>>

\* one iteration of for (i, chunk) in padded.chunks(8).enumerate()
AbsorbChunk ==
    /\ pc = "absorb"
    /\ chunk < num_chunks(padded)
    /\ IF state_index(chunk) < Len(state)
       THEN /\ state' = absorb_chunk(state, padded, chunk)
            /\ log' = Append(log, <<"absorb", blk, chunk>>)
            /\ chunk' = chunk + 1
            /\ steps' = steps + 1
            /\ UNCHANGED <<pc, inputs, blk, padded, permute_locals, recalled,
                           prior, pre_diffuse, seed_branch, mix_folded,
                           swapped, sbox_gen>>
       ELSE Panic

\* permute(&mut state, &padded): seed = fold of the state words
PermuteSeed ==
    /\ pc = "absorb"
    /\ chunk >= num_chunks(padded)
    /\ input_bytes' = padded
    /\ seed' = fold_seed(state)
    /\ log' = Append(log, <<"seed", blk>>)
    /\ steps' = steps + 1
    /\ pc' = "sbox_init"
    /\ UNCHANGED <<inputs, hash_locals, sbox, lcg, si, round, recalled, prior,
                   pre_diffuse, seed_branch, mix_folded, swapped, sbox_gen>>

\* generate_sbox(seed, input_bytes): the identity table
SboxInit ==
    /\ pc = "sbox_init"
    /\ sbox' = sbox_identity
    /\ swapped' = <<>>
    /\ log' = Append(log, <<"sbox", blk>>)
    /\ steps' = steps + 1
    /\ pc' = "seed_mix"
    /\ UNCHANGED <<inputs, hash_locals, input_bytes, seed, lcg, si, round,
                   recalled, prior, pre_diffuse, seed_branch, mix_folded,
                   sbox_gen>>

\* generate_sbox: the seed mix, then let mut state = mixed_seed
SeedMix ==
    /\ pc = "seed_mix"
    /\ IF \A k \in seed_mix_offsets(input_bytes) : k < Len(input_bytes)
       THEN /\ lcg' = seed_mix(seed, input_bytes)
            /\ seed_branch' = IF Len(input_bytes) > 7 THEN "fixed" ELSE "each"
            /\ si' = 255
            /\ steps' = steps + 1
            /\ pc' = "shuffle1"
            /\ UNCHANGED <<inputs, hash_locals, input_bytes, seed, sbox,
                           round, recalled, prior, pre_diffuse, log, mix_folded,
                           swapped, sbox_gen>>
       ELSE Panic

\* one iteration of a shuffle loop, for i in (1..256).rev(); after the last
\* one control moves on to `after`
ShuffleIteration(mult, after) ==
    LET r == shuffle_step([sbox |-> sbox, state |-> lcg, ok |-> TRUE], si, mult)
    IN  IF r.ok /\ si < Len(sbox)
        THEN /\ lcg' = r.state
             /\ sbox' = r.sbox
             /\ swapped' = <<si, swap_partner(r.state, si)>>
             /\ steps' = steps + 1
             /\ IF si > 1
                THEN si' = si - 1 /\ pc' = pc /\ sbox_gen' = sbox_gen
                ELSE /\ si' = 255
                     /\ pc' = after
                     /\ sbox_gen' = IF after = "mix" THEN sbox_gen + 1
                                    ELSE sbox_gen
             /\ UNCHANGED <<inputs, hash_locals, input_bytes, seed, round,
                            recalled, prior, pre_diffuse, log, seed_branch,
                            mix_folded>>
        ELSE Panic

\* Shuffle 1
Shuffle1 ==
    /\ pc = "shuffle1"
    /\ ShuffleIteration(LCG_MUL_1, "shuffle2")

\* Shuffle 2; the table is returned to permute, whose round loop starts
Shuffle2 ==
    /\ pc = "shuffle2"
    /\ ShuffleIteration(LCG_MUL_2, "mix")

\* permute_round, first loop: bit_mix on every word
BitMixAll ==
    /\ pc = "mix"
    /\ round < NUM_ROUNDS
    /\ IF /\ rc_index(round) < Len(ROUND_CONSTANTS)
          /\ bit_mix_folds(input_bytes) => 6 < Len(input_bytes)
       THEN /\ state' = mix_all(state, round, input_bytes)
            /\ mix_folded' = IF bit_mix_folds(input_bytes) THEN "folded"
                                                             ELSE "plain"
            /\ log' = Append(log, <<"mix", blk, round, rc_index(round)>>)
            /\ steps' = steps + 1
            /\ pc' = "substitute"
            /\ UNCHANGED <<inputs, blk, padded, chunk, permute_locals, recalled,
                           prior, pre_diffuse, seed_branch, swapped, sbox_gen>>
       ELSE Panic

\* permute_round, second loop: apply_byte_substitution on every word
SubstituteAll ==
    /\ pc = "substitute"
    /\ IF \A w \in 1..8 : \A k \in 1..8 : state[w][k] < Len(sbox)
       THEN /\ state' = substitute_all(state, sbox)
            /\ log' = Append(log, <<"substitute", blk, round, sbox_gen>>)
            /\ steps' = steps + 1
            /\ pc' = "diffuse"
            /\ UNCHANGED <<inputs, blk, padded, chunk, permute_locals, recalled,
                           prior, pre_diffuse, seed_branch, mix_folded,
                           swapped, sbox_gen>>
       ELSE Panic

\* permute_round, third loop; the round is over
Diffuse ==
    /\ pc = "diffuse"
    /\ state' = diffuse(state, round)
    /\ pre_diffuse' = state
    /\ round' = round + 1
    /\ log' = Append(log, <<"diffuse", blk, round>>)
    /\ steps' = steps + 1
    /\ pc' = "mix"
    /\ UNCHANGED <<inputs, blk, padded, chunk, input_bytes, seed, sbox, lcg,
                   si, recalled, prior, seed_branch, mix_folded, swapped,
                   sbox_gen>>

\* permute returns after the last round; on to the next block
PermuteReturn ==
    /\ pc = "mix"
    /\ round >= NUM_ROUNDS
    /\ blk' = blk + 1
    /\ round' = 0
    /\ steps' = steps + 1
    /\ pc' = "loop"
    /\ UNCHANGED <<inputs, padded, chunk, state, input_bytes, seed, sbox, lcg,
                   si, recalled, history_but_steps>>

\* hash returns state
HashReturn ==
    /\ pc = "loop"
    /\ blk >= Len(inputs)
    /\ steps' = steps + 1
    /\ pc' = "done"
    /\ UNCHANGED <<inputs, hash_locals, permute_locals, recalled,
                   history_but_steps>>

\* the steps inside a call
Step ==
    \/ PadBlock \/ AbsorbChunk \/ PermuteSeed
    \/ SboxInit \/ SeedMix \/ Shuffle1 \/ Shuffle2
    \/ BitMixAll \/ SubstituteAll \/ Diffuse \/ PermuteReturn
    \/ HashReturn

Next ==
    \/ \E l \in InputLists : HashEnter(l)
    \/ Step

Spec == Init /\ [][Next]_vars

\* pad_block on its own
InitPad ==
    /\ \E d \in PadInputs : inputs = <<d>>
    /\ pc = "loop"
    /\ state = state_zero
    /\ recalled = FALSE
    /\ Fresh

SpecPad == InitPad /\ [][PadBlock]_vars

\* generate_sbox on its own
InitSbox ==
    /\ pc = "sbox_init"
    /\ inputs = <<>>
    /\ state = state_zero
    /\ recalled = FALSE
    /\ blk = 0 /\ padded = <<>> /\ chunk = 0
    /\ \E d \in SboxInputs : input_bytes = d
    /\ \E w \in Seeds : seed = w
    /\ sbox = <<>> /\ lcg = Zero /\ si = 0 /\ round = 0
    /\ prior = state_zero /\ pre_diffuse = state_zero /\ log = <<>>
    /\ steps = 0 /\ seed_branch = "none" /\ mix_folded = "none"
    /\ swapped = <<>> /\ sbox_gen = 0

NextSbox == SboxInit \/ SeedMix \/ Shuffle1 \/ Shuffle2

SpecSbox == InitSbox /\ [][NextSbox]_vars

(***************************************************************************)
(* Properties                                                              *)
(***************************************************************************)
\* a table of 256 entries in which every byte value occurs
IsPermutation(t) == Len(t) = 256 /\ {t[k] : k \in 1..256} = 0..255

InGenerateSbox == pc \in {"seed_mix", "shuffle1", "shuffle2"}

\* C1: generate_sbox keeps a bijection on 0..255: the table is a permutation
\* after the identity initialisation and after every swap of both passes,
\* and every swap exchanges index i, which runs from 255 down to 1, with the
\* partner j = state mod (i+1), 0 <= j <= i <= 255; the table returned is a
\* permutation.
C1_SboxPermutation ==
    /\ (InGenerateSbox \/ pc = "mix") => IsPermutation(sbox)
    /\ (InGenerateSbox \/ pc = "mix") /\ swapped # <<>> =>
          /\ swapped[1] = (si % 255) + 1
          /\ swapped[2] = swap_partner(lcg, swapped[1])
          /\ 0 <= swapped[2]
          /\ swapped[2] <= swapped[1]
          /\ 1 <= swapped[1] /\ swapped[1] <= 255
    /\ pc = "seed_mix" => sbox = [k \in 1..256 |-> k - 1]
    /\ pc # "panic"

\* C1 witness: generate_sbox has returned a shuffled table for an input of
\* fewer than 8 bytes (the per-byte seed mix).
C1_Witness_Short ==
    /\ pc = "mix" /\ seed_branch = "each" /\ Len(input_bytes) = 3
    /\ sbox # sbox_identity /\ swapped # <<>>

\* C2: pad_block(block) is block, one 0x80 byte, then z zero bytes, where
\* 0 <= z <= 7 is the least number making the length a multiple of 8: the
\* length is a positive multiple of 8, at least len(block)+1, and z = 0 when
\* len(block)+1 is a multiple of 8.
C2_Padding ==
    pc = "absorb" =>
        LET block == inputs[blk + 1]
            n == Len(block)
            z == Len(padded) - n - 1
        IN  /\ Len(padded) >= n + 1
            /\ SubSeq(padded, 1, n) = block
            /\ padded[n + 1] = 128
            /\ 0 <= z /\ z <= 7
            /\ \A k \in (n + 2)..Len(padded) : padded[k] = 0
            /\ Len(padded) % 8 = 0 /\ Len(padded) > 0
            /\ \A y \in 0..(z - 1) : (n + 1 + y) % 8 # 0
            /\ ((n + 1) % 8 = 0) => z = 0

\* C2 witness: a 7-byte block made of 0x80 and 0x00 bytes has been padded,
\* to 8 bytes and no zero byte added.
C2_Witness ==
    /\ pc = "absorb" /\ Len(inputs[1]) = 7 /\ Len(padded) = 8
    /\ inputs[1][7] = 128 /\ inputs[1][1] = 0

\* C3: hash is deterministic: whatever calls ran before, a call returns the
\* digest that its list of blocks alone determines (the digest computed from
\* the all-zero state), so two calls with one list return the same digest.
C3_Deterministic == pc = "done" => state = hash(inputs)

\* C3 witness: a call on a non-empty list has returned after an earlier call
\* had returned a non-zero digest.
C3_Witness == pc = "done" /\ recalled /\ Len(inputs) = 2 /\ state # state_zero

\* C4: hash of the empty list returns the all-zero digest, and its only step
\* is the return: no padding, absorption or permutation step runs.
C4_EmptyList ==
    (pc = "done" /\ inputs = <<>>) =>
        /\ state = <<Zero, Zero, Zero, Zero, Zero, Zero, Zero, Zero>>
        /\ log = <<>>
        /\ steps = 1
        /\ sbox_gen = 0

\* C4 witness: a call on the empty list has returned, after an earlier call.
C4_Witness == pc = "done" /\ inputs = <<>> /\ recalled

\* the number of chunks of a block once padded
ChunksOf(block) == (Len(block) \div 8) + 1

RECURSIVE StepsOf(_, _)
\* the number of steps of a call on the first n blocks of l, return included
StepsOf(l, n) ==
    IF n = 0 THEN 1
    ELSE StepsOf(l, n - 1) + 1 + ChunksOf(l[n]) + 3 + 2 * 255
         + 3 * NUM_ROUNDS + 1

IsWord(w) == Len(w) = 8 /\ \A k \in 1..8 : w[k] \in 0..255

InPermute ==
    pc \in {"sbox_init", "seed_mix", "shuffle1", "shuffle2", "mix",
            "substitute", "diffuse"}

\* C5: hash cannot fail: no step panics, a call takes no more steps than
\* the number its list fixes and returns on the last of them, the value
\* returned is 8 words, and every index is in range: table indices
\* below 256, state indices below 8, round-constant indices below 24, and
\* the offsets 2, 3, 5, 6, 7 of input_bytes inside the byte sequence.
C5_CannotFail ==
    /\ pc # "panic"
    /\ steps <= StepsOf(inputs, Len(inputs))
    /\ pc = "done" =>
          /\ steps = StepsOf(inputs, Len(inputs))
          /\ Len(state) = 8 /\ \A w \in 1..8 : IsWord(state[w])
    /\ (pc = "absorb" /\ chunk < num_chunks(padded)) => state_index(chunk) < 8
    /\ (pc = "mix" /\ round < NUM_ROUNDS) => rc_index(round) < 24
    /\ InPermute => \A k \in {2, 3, 5, 6, 7} : k < Len(input_bytes)
    /\ pc = "seed_mix" =>
          \A k \in seed_mix_offsets(input_bytes) : k < Len(input_bytes)
    /\ pc \in {"shuffle1", "shuffle2"} => si < 256
    /\ swapped # <<>> => swapped[1] < 256 /\ swapped[2] < 256
    /\ pc = "substitute" =>
          /\ Len(sbox) = 256
          /\ \A w \in 1..8 : \A k \in 1..8 : state[w][k] < 256

\* C5 witness: a call on a list holding an empty block and a block of more
\* than 64 bytes has returned.
C5_Witness ==
    /\ pc = "done" /\ Len(inputs) = 2
    /\ inputs[1] = <<>> /\ Len(inputs[2]) > 64

\* the Diffusion Step's value for word i in round r, from the word itself
\* and the values read for its four neighbours
DiffusionValue(self, left, right, center, extra, r, i) ==
    xor(xor(xor(xor(self, rotate_left(left, (r + 2 * i) % 64)),
                rotate_right(right, (r + 3 * i) % 64)),
            rotate_left(center, 11)),
        rotate_left(wrapping_mul(extra, GOLDEN), (r + 5 * i) % 64))

\* a Diffusion Step has just ended: round - 1 is its round
AfterDiffuse == pc = "mix" /\ round >= 1

\* what the step reads for word k while it computes word i: the updated
\* word when k < i, the pre-step word otherwise
SeenBy(i, k) == IF k < i THEN state[k + 1] ELSE pre_diffuse[k + 1]

\* C6 as stated: the Diffusion Step is one simultaneous pass; every new word
\* is computed from the pre-step state alone.
C6_Simultaneous ==
    AfterDiffuse =>
        \A i \in 0..7 :
            state[i + 1] =
                DiffusionValue(pre_diffuse[i + 1],
                               pre_diffuse[((i + 7) % 8) + 1],
                               pre_diffuse[((i + 1) % 8) + 1],
                               pre_diffuse[((i + 4) % 8) + 1],
                               pre_diffuse[((i + 3) % 8) + 1], round - 1, i)

\* C6 amended: the Diffusion Step is one sequential in-place pass for
\* i = 0..7; new word i is old[i] XOR the four rotated neighbour terms,
\* where a neighbour of index below i is read already updated and one of
\* index above i is read as it was before the step.
C6_InPlace ==
    AfterDiffuse =>
        \A i \in 0..7 :
            state[i + 1] =
                DiffusionValue(pre_diffuse[i + 1],
                               SeenBy(i, (i + 7) % 8), SeenBy(i, (i + 1) % 8),
                               SeenBy(i, (i + 4) % 8), SeenBy(i, (i + 3) % 8),
                               round - 1, i)

\* C6 witness: a Diffusion Step of a later round has run on a state whose
\* words differ, and word 1 is not what the pre-step state alone gives.
C6_Witness ==
    /\ AfterDiffuse /\ round = 3
    /\ pre_diffuse[1] # pre_diffuse[2]
    /\ state[2] # DiffusionValue(pre_diffuse[2], pre_diffuse[1], pre_diffuse[3],
                                 pre_diffuse[6], pre_diffuse[5], 2, 1)

RECURSIVE FoldLane(_, _, _, _)
\* the XOR of byte j of the chunks k < n with k mod 8 = w
FoldLane(bytes, w, j, n) ==
    IF n = 0 THEN 0
    ELSE IF (n - 1) % 8 = w
         THEN XorTab[FoldLane(bytes, w, j, n - 1)][bytes[8 * (n - 1) + j + 1]]
         ELSE FoldLane(bytes, w, j, n - 1)

\* the words st with the first n chunks of bytes folded in, lane by lane
FoldInto(st, bytes, n) ==
    [w \in 1..8 |-> [j \in 1..8 |->
        XorTab[st[w][j]][FoldLane(bytes, w - 1, j - 1, n)]]]

\* C7: absorption: chunk k of the padded block, assembled little-endian
\* (byte j of the chunk in bits 8j..8j+7), is XORed into state[k mod 8]:
\* once `chunk` chunks are absorbed, and so just before the permutation,
\* every state word w is its value before the block XOR all absorbed chunks
\* k with k mod 8 = w, chunks k >= 8 included.
C7_Absorption ==
    pc = "absorb" =>
        /\ Len(padded) = 8 * num_chunks(padded)
        /\ chunk <= num_chunks(padded)
        /\ state = FoldInto(prior, padded, chunk)

\* C7 witness: all 11 chunks of a padded 80-byte block are absorbed, chunks
\* 8, 9, 10 onto words 0, 1, 2 again, starting from a non-zero state.
C7_Witness ==
    /\ pc = "absorb" /\ chunk = 11 /\ num_chunks(padded) = 11
    /\ prior # state_zero
    /\ state[1] # xor(prior[1], chunk_val(chunk_at(padded, 0)))

\* the operations of one round r on block b, with table number g
ExpectedRound(b, r, g) ==
    << <<"mix", b, r, r>>, <<"substitute", b, r, g>>, <<"diffuse", b, r>> >>

RECURSIVE ExpectedRounds(_, _)
\* rounds 0..n-1 on block b, all with the table generated for that block
ExpectedRounds(b, n) ==
    IF n = 0 THEN <<>>
    ELSE ExpectedRounds(b, n - 1) \o ExpectedRound(b, n - 1, b + 1)

\* pad, every chunk in order, the seed, one table, then the 24 rounds
ExpectedBlock(b, block) ==
    << <<"pad", b>> >>
    \o [k \in 1..ChunksOf(block) |-> <<"absorb", b, k - 1>>]
    \o << <<"seed", b>>, <<"sbox", b>> >>
    \o ExpectedRounds(b, 24)

RECURSIVE ExpectedLog(_, _)
\* the operations of a call on the first n blocks of l
ExpectedLog(l, n) ==
    IF n = 0 THEN <<>>
    ELSE ExpectedLog(l, n - 1) \o ExpectedBlock(n - 1, l[n])

\* the XOR of the 8 words, byte lane by byte lane
XorOfWords(st) ==
    [j \in 1..8 |->
        XorTab[XorTab[XorTab[st[1][j]][st[2][j]]][XorTab[st[3][j]][st[4][j]]]]
              [XorTab[XorTab[st[5][j]][st[6][j]]][XorTab[st[7][j]][st[8][j]]]]]

\* C8: in a call the operations run, block after block in list order, as:
\* pad; absorb every chunk; one permutation, which computes the seed as the
\* XOR of the 8 post-absorption words, generates one table from that seed
\* and the padded bytes, then runs rounds 0..23 with that table, each round
\* the Bit Mixer with round constant number `round`, the Byte Substitutor,
\* one Diffusion Step.  There are as many permutations and tables as blocks.
C8_Order ==
    LET expected == ExpectedLog(inputs, Len(inputs))
    IN  /\ Len(log) <= Len(expected)
        /\ log = SubSeq(expected, 1, Len(log))
        /\ pc = "done" => log = expected /\ sbox_gen = Len(inputs)
        /\ pc \in {"sbox_init", "seed_mix"} =>
              /\ chunk = num_chunks(padded)
              /\ seed = XorOfWords(state)
              /\ input_bytes = padded
        /\ InPermute => sbox_gen \in {blk, blk + 1}
        /\ pc \in {"mix", "substitute", "diffuse"} =>
              sbox_gen = blk + 1 /\ input_bytes = padded

\* C8 witness: a call on two different non-empty blocks has returned.
C8_Witness ==
    /\ pc = "done" /\ Len(inputs) = 2 /\ sbox_gen = 2
    /\ inputs[1] # <<>> /\ inputs[2] # <<>> /\ inputs[1] # inputs[2]

\* input_bytes with every byte but those at offsets 2, 3, 5, 6, 7 dropped:
\* 8 bytes, zero at offsets 0, 1, 4
OffsetsOnly(bytes) ==
    <<0, 0, bytes[3], bytes[4], 0, bytes[6], bytes[7], bytes[8]>>

\* block with bytes 8..15 and bytes 72..79 exchanged
SwapChunks(block) ==
    SubSeq(block, 1, 8) \o SubSeq(block, 73, 80) \o SubSeq(block, 17, 72)
    \o SubSeq(block, 9, 16) \o SubSeq(block, 81, Len(block))

\* C9: the state after absorbing and permuting a block is determined by the
\* state before the block, the per-word XOR fold of the padded chunks and
\* the padded bytes at offsets 2, 3, 5, 6, 7: it is the permutation of the
\* folded state run with those five bytes alone.  So for a block of at least
\* 80 bytes, exchanging bytes 8..15 with bytes 72..79 leaves hash([block])
\* unchanged.
C9_FoldAndOffsets ==
    /\ (pc = "loop" /\ blk >= 1) =>
          state = permute(FoldInto(prior, padded, Len(padded) \div 8),
                          OffsetsOnly(padded))
    /\ (pc = "done" /\ Len(inputs) = 1 /\ Len(inputs[1]) >= 80) =>
          state = hash(<<SwapChunks(inputs[1])>>)

\* C9 witness: a call on one 80-byte block whose chunks 1 and 9 differ, and
\* whose bytes outside the five offsets are not zero, has returned.
C9_Witness ==
    /\ pc = "done" /\ Len(inputs) = 1 /\ Len(inputs[1]) = 80
    /\ SwapChunks(inputs[1]) # inputs[1]
    /\ OffsetsOnly(padded) # SubSeq(padded, 1, 8)

\* C10: the bytes handed to permute, generate_sbox and bit_mix are a padded
\* block: their length is a multiple of 8 and at least 8, so the seed mix
\* takes the fixed-offset branch, never the per-byte one, and bit_mix folds
\* bytes 3 and 6 in; for a block shorter than 7 bytes the offsets at or
\* past its length hold padding (0x80 at the length, 0x00 after).
C10_PaddedBytes ==
    /\ InPermute =>
          /\ input_bytes = padded
          /\ Len(input_bytes) % 8 = 0 /\ Len(input_bytes) >= 8
          /\ bit_mix_folds(input_bytes)
          /\ seed_mix_offsets(input_bytes) = {2, 5, 7}
          /\ LET n == Len(inputs[blk + 1])
             IN  /\ \A k \in {2, 3, 5, 6, 7} :
                       k >= n => input_bytes[k + 1] = IF k = n THEN 128 ELSE 0
                 /\ n < 7 => \E k \in {2, 3, 5, 6, 7} : k >= n
    /\ seed_branch \in {"none", "fixed"}
    /\ mix_folded \in {"none", "folded"}

\* C10 witness: rounds have run on a block of 5 bytes: the seed mix took
\* the fixed-offset branch, bit_mix folded bytes 3 and 6, and offsets 5, 6,
\* 7 hold padding.
C10_Witness ==
    /\ pc = "mix" /\ round >= 1 /\ Len(inputs[blk + 1]) = 5
    /\ seed_branch = "fixed" /\ mix_folded = "folded"
    /\ input_bytes[6] = 128 /\ input_bytes[7] = 0 /\ input_bytes[3] # 0

====
